---- MODULE Spec2Model ----
(***************************************************************************)
(* Model of ldk-server/src/util/metrics.rs: the health-score gauge, its    *)
(* registration in a prometheus Registry, the three-read update cycle and  *)
(* the text export.                                                        *)
(***************************************************************************)
EXTENDS Integers, Sequences, FiniteSets, TLC

\* ------------------------------------------------------------------ bounds
\* Largest length of the node's peer list.
MaxPeers == 1
\* Number of changes the node's state goes through in one behaviour.
MaxChanges == 3
\* Number of IntGauge values ever created by Metrics::new.
MaxGauges == 2
\* Number of failed (panicking) Metrics::new calls in one behaviour.
MaxPanics == 2

\* ------------------------------------------------------------ identities
\* default_registry() and one Registry constructed by a caller.
Registries == {"default", "custom"}
\* The threads that run update cycles.
Updaters == {"u1", "u2"}

HealthName == "ldk_health_score"
HealthHelp == "Current health score (0-100)"

VARIABLES
    node,       \* the ldk_node::Node collaborator: is_running, peers, sync
    changes,    \* how many times the node's state has changed so far
    registry,   \* Registry -> the collectors registered in it
    gauges,     \* gauges[g]: the value of the g-th IntGauge created
    written,    \* written[g]: the values IntGauge::set has stored in g
    panics,     \* how many Metrics::new calls have panicked
    pc,         \* updater -> position in update_service_health_score
    um,         \* updater -> the Metrics (gauge) it was called on
    ur,         \* updater -> node.status().is_running as read
    up,         \* updater -> !node.list_peers().is_empty() as read
    us,         \* updater -> latest_lightning_wallet_sync_timestamp.is_some()
    score,      \* updater -> the local `score`
    held,       \* updater -> signal triples the node held during the call
    result      \* what the latest gather_metrics call returned

vars == <<node, changes, registry, gauges, written, panics,
          pc, um, ur, up, us, score, held, result>>

nodeVars == <<node, changes>>
regVars == <<registry, gauges, written, panics>>
updVars == <<pc, um, ur, up, us, score, held>>

\* ------------------------------------------------------- HealthScorer
\* compute_health_score with the early return for a stopped node left out.
compute_no_short_circuit(is_running, has_peers, is_wallet_synced) ==
    LET start == IF is_running THEN 100 ELSE 0
        s1 == IF ~has_peers THEN start - 35 ELSE start
        s2 == IF ~is_wallet_synced THEN s1 - 25 ELSE s1
    IN s2

\* compute_health_score with the two weights swapped.
compute_swapped_weights(is_running, has_peers, is_wallet_synced) ==
    IF ~is_running THEN 0
    ELSE LET s1 == IF ~has_peers THEN 100 - 25 ELSE 100
             s2 == IF ~is_wallet_synced THEN s1 - 35 ELSE s1
         IN s2

compute_health_score(is_running, has_peers, is_wallet_synced) ==
    IF ~is_running THEN 0
    ELSE LET health_score0 == 100
             health_score1 == IF ~has_peers THEN health_score0 - 35
                              ELSE health_score0
             health_score2 == IF ~is_wallet_synced THEN health_score1 - 25
                              ELSE health_score1
         IN health_score2

\* ------------------------------------------------------------- the node
\* latest_lightning_wallet_sync_timestamp is None or Some(t); the code only
\* asks is_some(), so every Some(t) is the one value "Some".
NoTimestamp == "None"

\* The three signals the update derives from the node, as one triple.
Signals(n) == <<n.is_running, n.peers > 0, n.sync # NoTimestamp>>

\* Every in-flight update has now also seen the node in state n.
Witnessed(n) ==
    [u \in Updaters |->
        IF pc[u] \in {"peers", "status2", "set"}
        THEN held[u] \cup {Signals(n)} ELSE held[u]]

NodeChange(n) ==
    /\ changes < MaxChanges
    /\ node' = n
    /\ changes' = changes + 1
    /\ held' = Witnessed(n)
    /\ UNCHANGED <<regVars, pc, um, ur, up, us, score, result>>

NodeStart ==
    /\ ~node.is_running
    /\ NodeChange([node EXCEPT !.is_running = TRUE])

NodeStop ==
    /\ node.is_running
    /\ NodeChange([node EXCEPT !.is_running = FALSE])

PeerConnect ==
    /\ node.is_running
    /\ node.peers < MaxPeers
    /\ NodeChange([node EXCEPT !.peers = @ + 1])

PeerDisconnect ==
    /\ node.peers > 0
    /\ NodeChange([node EXCEPT !.peers = @ - 1])

\* The first wallet sync of a running node (a later one replaces the
\* timestamp by another Some).
WalletSync ==
    /\ node.is_running
    /\ node.sync = NoTimestamp
    /\ NodeChange([node EXCEPT !.sync = "Some"])

\* ---------------------------------------------------------- the Registry
HealthDesc(g) == [name |-> HealthName, help |-> HealthHelp, gauge |-> g]

Registered(reg, name) == {c \in reg : c.name = name}

\* Registry::register that replaces a collector of the same name.
Registry_register_overwrite(reg, c) ==
    [ok |-> TRUE, reg |-> (reg \ Registered(reg, c.name)) \cup {c}]

\* Registry::register as register_int_gauge_with_registry! calls it: a
\* collector whose name is taken is refused and the registry is left alone.
Registry_register(reg, c) ==
    IF Registered(reg, c.name) # {}
    THEN [ok |-> FALSE, reg |-> reg]
    ELSE [ok |-> TRUE, reg |-> reg \cup {c}]

\* The Metrics values that exist: one per IntGauge created.
MetricsSet == 1..Len(gauges)

\* Metrics::new(registry): a new IntGauge at 0 is registered; a refused
\* registration makes .expect("Failed to register metric") panic.
Metrics_new(r) ==
    LET g == Len(gauges) + 1
        res == Registry_register(registry[r], HealthDesc(g))
    IN IF res.ok
       THEN /\ Len(gauges) < MaxGauges
            /\ registry' = [registry EXCEPT ![r] = res.reg]
            /\ gauges' = Append(gauges, 0)
            /\ written' = Append(written, {})
            /\ UNCHANGED <<panics, nodeVars, updVars, result>>
       ELSE /\ panics < MaxPanics
            /\ panics' = panics + 1
            /\ UNCHANGED <<registry, gauges, written, nodeVars, updVars, result>>

\* lazy_static METRICS: the first use of METRICS runs
\* Metrics::new(default_registry()), once.
METRICS_init ==
    /\ MetricsSet = {}
    /\ Metrics_new("default")

\* ------------------------------------------------------- MetricsUpdater
\* IntGauge::set that only ever raises the stored value.
IntGauge_set_max(vals, g, v) ==
    [vals EXCEPT ![g] = IF v > @ THEN v ELSE @]

\* IntGauge::set as two half-word stores, observed between the two.
IntGauge_set_torn(vals, g, v) ==
    [vals EXCEPT ![g] = IF @ = v THEN v ELSE (v - (v % 16)) + (@ % 16)]

\* IntGauge::set: an atomic store of v into gauge g.
IntGauge_set(vals, g, v) == [vals EXCEPT ![g] = v]

\* update_service_health_score(&self, node) is entered on Metrics m and
\* calculate_ldk_server_health_score evaluates its first argument,
\* node.status().is_running.
update_call(u, m) ==
    /\ pc[u] \in {"idle", "done"}
    /\ m \in MetricsSet
    /\ pc' = [pc EXCEPT ![u] = "peers"]
    /\ um' = [um EXCEPT ![u] = m]
    /\ ur' = [ur EXCEPT ![u] = node.is_running]
    /\ up' = [up EXCEPT ![u] = FALSE]
    /\ us' = [us EXCEPT ![u] = FALSE]
    /\ score' = [score EXCEPT ![u] = 0]
    /\ held' = [held EXCEPT ![u] = {Signals(node)}]
    /\ UNCHANGED <<nodeVars, regVars, result>>

\* The second argument: !node.list_peers().is_empty().
calculate_list_peers(u) ==
    /\ pc[u] = "peers"
    /\ pc' = [pc EXCEPT ![u] = "status2"]
    /\ up' = [up EXCEPT ![u] = ~(node.peers = 0)]
    /\ UNCHANGED <<nodeVars, regVars, um, ur, us, score, held, result>>

\* The third argument taken from the wrong field of the status.
calculate_status2_wrong_field(u) ==
    /\ pc[u] = "status2"
    /\ pc' = [pc EXCEPT ![u] = "set"]
    /\ us' = [us EXCEPT ![u] = node.is_running]
    /\ score' = [score EXCEPT ![u] = compute_health_score(ur[u], up[u], us'[u])]
    /\ UNCHANGED <<nodeVars, regVars, um, ur, up, held, result>>

\* The third argument, node.status() read again for the sync timestamp,
\* and the call of compute_health_score, whose value becomes `score`.
calculate_status2(u) ==
    /\ pc[u] = "status2"
    /\ pc' = [pc EXCEPT ![u] = "set"]
    /\ us' = [us EXCEPT ![u] = (node.sync # NoTimestamp)]
    /\ score' = [score EXCEPT ![u] = compute_health_score(ur[u], up[u], us'[u])]
    /\ UNCHANGED <<nodeVars, regVars, um, ur, up, held, result>>

\* update_service_health_score that skips the store for a stopped node.
update_set_skip_stopped(u) ==
    /\ pc[u] = "set"
    /\ pc' = [pc EXCEPT ![u] = "done"]
    /\ gauges' = IF ur[u] THEN IntGauge_set(gauges, um[u], score[u]) ELSE gauges
    /\ written' = IF ur[u] THEN [written EXCEPT ![um[u]] = @ \cup {score[u]}]
                  ELSE written
    /\ UNCHANGED <<nodeVars, registry, panics, um, ur, up, us, score, held, result>>

\* self.service_health_score.set(score), after which the call returns.
update_set(u) ==
    /\ pc[u] = "set"
    /\ pc' = [pc EXCEPT ![u] = "done"]
    /\ gauges' = IntGauge_set(gauges, um[u], score[u])
    /\ written' = [written EXCEPT ![um[u]] = @ \cup {score[u]}]
    /\ UNCHANGED <<nodeVars, registry, panics, um, ur, up, us, score, held, result>>

\* ------------------------------------------------------------- Exporter
RECURSIVE SetToSeq(_)
\* The elements of a set of collectors, in the order of their gauges.
SetToSeq(S) ==
    IF S = {} THEN <<>>
    ELSE LET c == CHOOSE x \in S : \A y \in S : x.gauge <= y.gauge
         IN <<c>> \o SetToSeq(S \ {c})

\* Registry::gather on reg: one metric family per collector, each with the
\* value its gauge holds at this instant.
Registry_gather(reg, vals) ==
    LET cs == SetToSeq(reg)
    IN [i \in 1..Len(cs) |->
          [name |-> cs[i].name, help |-> cs[i].help, type |-> "gauge",
           value |-> vals[cs[i].gauge]]]

\* prometheus::gather(): the families of default_registry().
gather == Registry_gather(registry["default"], gauges)

RECURSIVE EncodeLines(_)
\* The three lines TextEncoder writes for each family:
\*   # HELP <name> <help>  /  # TYPE <name> <type>  /  <name> <value>
EncodeLines(mfs) ==
    IF mfs = <<>> THEN <<>>
    ELSE LET mf == Head(mfs)
         IN << [kind |-> "# HELP", name |-> mf.name, arg |-> mf.help],
               [kind |-> "# TYPE", name |-> mf.name, arg |-> mf.type],
               [kind |-> "sample", name |-> mf.name, arg |-> mf.value] >>
            \o EncodeLines(Tail(mfs))

\* TextEncoder::encode: an unnamed family is refused, else the text.
TextEncoder_encode(mfs) ==
    IF \E i \in 1..Len(mfs) : mfs[i].name = ""
    THEN [ok |-> FALSE, text |-> <<>>]
    ELSE [ok |-> TRUE, text |-> EncodeLines(mfs)]

\* No gather_metrics call has returned yet.
NoResult == [ok |-> FALSE, text |-> <<[kind |-> "none", name |-> "", arg |-> ""]>>]

\* gather_metrics that clears the gauges it has exported.
gather_metrics_resetting(m) ==
    /\ m \in MetricsSet
    /\ result' = TextEncoder_encode(gather)
    /\ gauges' = [g \in DOMAIN gauges |->
                    IF HealthDesc(g) \in registry["default"] THEN 0 ELSE gauges[g]]
    /\ UNCHANGED <<nodeVars, registry, written, panics, updVars>>

\* gather_metrics(&self) on Metrics m: Ok(text) or the encoder's error.
gather_metrics(m) ==
    /\ m \in MetricsSet
    /\ result' = TextEncoder_encode(gather)
    /\ UNCHANGED <<nodeVars, regVars, updVars>>

\* ------------------------------------------------------------ behaviours
Init ==
    /\ node = [is_running |-> FALSE, peers |-> 0, sync |-> NoTimestamp]
    /\ changes = 0
    /\ registry = [r \in Registries |-> {}]
    /\ gauges = <<>>
    /\ written = <<>>
    /\ panics = 0
    /\ pc = [u \in Updaters |-> "idle"]
    /\ um = [u \in Updaters |-> 0]
    /\ ur = [u \in Updaters |-> FALSE]
    /\ up = [u \in Updaters |-> FALSE]
    /\ us = [u \in Updaters |-> FALSE]
    /\ score = [u \in Updaters |-> 0]
    /\ held = [u \in Updaters |-> {}]
    /\ result = NoResult

\* What the node does on its own.
NodeStep ==
    \/ NodeStart
    \/ NodeStop
    \/ PeerConnect
    \/ PeerDisconnect
    \/ WalletSync

\* One step of updater u's update_service_health_score cycle.
UpdateStep(u) ==
    \/ \E m \in MetricsSet : update_call(u, m)
    \/ calculate_list_peers(u)
    \/ calculate_status2(u)
    \/ update_set(u)

\* A scrape: gather_metrics on some Metrics.
Export == \E m \in MetricsSet : gather_metrics(m)

\* One caller, Metrics built on either registry.
Next ==
    \/ NodeStep
    \/ \E r \in Registries : Metrics_new(r)
    \/ UpdateStep("u1")
    \/ Export

Spec == Init /\ [][Next]_vars

\* The server: the process-wide METRICS = Metrics::new(default_registry()),
\* updated by every updater thread and scraped concurrently.
ConcNext ==
    \/ NodeStep
    \/ METRICS_init
    \/ \E u \in Updaters : UpdateStep(u)
    \/ Export

SpecConc == Init /\ [][ConcNext]_vars

\* The server under its scheduler: METRICS is initialised on first use and
\* every updater's interval timer keeps firing.
SpecLive ==
    /\ Init
    /\ [][ConcNext]_vars
    /\ WF_vars(METRICS_init)
    /\ \A u \in Updaters : WF_vars(UpdateStep(u))

\* ---------------------------------------------------------------- claims
ScoreSet == {0, 40, 65, 75, 100}

\* The score the documentation tabulates for each signal triple.
TableScore(is_running, has_peers, is_synced) ==
    CASE ~is_running -> 0
      [] is_running /\ has_peers /\ is_synced -> 100
      [] is_running /\ ~has_peers /\ is_synced -> 65
      [] is_running /\ has_peers /\ ~is_synced -> 75
      [] is_running /\ ~has_peers /\ ~is_synced -> 40

\* The gauge a scrape exports: the one registered in default_registry().
Exported(g) == g \in MetricsSet /\ HealthDesc(g) \in registry["default"]

\* The text holds the sample line `ldk_health_score <v>`.
HasSample(text, v) ==
    \E i \in DOMAIN text :
        text[i].kind = "sample" /\ text[i].name = HealthName /\ text[i].arg = v

\* The text holds the `# HELP ldk_health_score ...` and
\* `# TYPE ldk_health_score gauge` lines.
HasHeader(text) ==
    /\ \E i \in DOMAIN text : text[i].kind = "# HELP" /\ text[i].name = HealthName
    /\ \E i \in DOMAIN text :
        text[i].kind = "# TYPE" /\ text[i].name = HealthName /\ text[i].arg = "gauge"

\* The triples of a node that is not running.
Stopped == {t \in BOOLEAN \X BOOLEAN \X BOOLEAN : ~t[1]}

\* C1: for every boolean triple compute_health_score returns 0 when
\* is_running is false and otherwise 100 minus 35 for no peers minus 25 for
\* no sync, so only 0, 40, 65, 75 and 100 are returned; and the score every
\* update computes is the tabulated score of the three values it read.
C1_ScoreTable ==
    /\ \A r \in BOOLEAN, p \in BOOLEAN, s \in BOOLEAN :
        /\ compute_health_score(r, p, s) = TableScore(r, p, s)
        /\ compute_health_score(r, p, s) \in ScoreSet
        /\ ~r => compute_health_score(r, p, s) = 0
        /\ r => compute_health_score(r, p, s) =
                  100 - (IF p THEN 0 ELSE 35) - (IF s THEN 0 ELSE 25)
    /\ \A u \in Updaters :
        pc[u] \in {"set", "done"} => score[u] = TableScore(ur[u], up[u], us[u])

\* An update read (running, no peers, not synced) and stored 40.
C1_Witness ==
    \E u \in Updaters :
        /\ pc[u] = "done"
        /\ ur[u] /\ ~up[u] /\ ~us[u]
        /\ score[u] = 40
        /\ gauges[um[u]] = 40

\* C2: a gather_metrics call on any Metrics, whatever registry it was
\* built with, returns Ok text holding the HELP line, the TYPE line and the
\* sample line `ldk_health_score <v>` for the value v of that Metrics' gauge.
C2_ExportRoundTrip ==
    [][\A m \in MetricsSet :
         gather_metrics(m) =>
            /\ result'.ok
            /\ HasHeader(result'.text)
            /\ HasSample(result'.text, gauges[m])]_vars

\* C3: a Metrics::new on a registry that already holds the health gauge's
\* name panics, every time, and leaves the registry with exactly the gauge
\* registered first, its value untouched; no registry ever holds two
\* collectors of that name.
C3_DuplicateRegistrationFails ==
    /\ [](\A r \in Registries :
            Cardinality(Registered(registry[r], HealthName)) <= 1)
    /\ [][\A r \in Registries :
            (Metrics_new(r) /\ Registered(registry[r], HealthName) # {}) =>
                /\ panics' = panics + 1
                /\ registry' = registry
                /\ gauges' = gauges]_vars

\* Two registrations on default_registry() have failed and the first gauge
\* is still the one registered there, with the score an update stored.
C3_Witness ==
    /\ panics >= 2
    /\ registry["default"] = {HealthDesc(1)}
    /\ gauges[1] = 65

\* C4: with updates and exports interleaved, every health-gauge value an
\* export has returned is 0 or a value some update stored in that gauge
\* before, and neither an update step nor an export panics.
C4_ExportsWrittenValues ==
    /\ [](result # NoResult =>
            /\ result.ok
            /\ \A i \in DOMAIN result.text :
                (result.text[i].kind = "sample" /\ result.text[i].name = HealthName)
                => \E g \in MetricsSet :
                      /\ Exported(g)
                      /\ result.text[i].arg \in written[g] \cup {0})
    /\ [][((\E u \in Updaters : UpdateStep(u)) \/ Export) => panics' = panics]_vars

\* An export returned 40 while one update has since stored 100 and another
\* is about to store its score.
C4_Witness ==
    /\ result.ok
    /\ HasSample(result.text, 40)
    /\ Exported(1)
    /\ gauges[1] = 100
    /\ pc["u1"] = "done"
    /\ pc["u2"] = "set"

C6_ExportMutatesNothing ==
    [][result' # result =>
         UNCHANGED <<registry, gauges, written, panics, node, changes, updVars>>]_vars

\* An export returned 65 and the exported gauge still holds 65.
C6_Witness ==
    /\ result.ok
    /\ HasHeader(result.text)
    /\ HasSample(result.text, 65)
    /\ Exported(1)
    /\ gauges[1] = 65

\* C7: every gauge always holds one of 0, 40, 65, 75, 100, within
\* [0, 100], and holds 0 until an update has stored a score in it.
C7_GaugeInRange ==
    \A g \in MetricsSet :
        /\ gauges[g] \in ScoreSet
        /\ 0 <= gauges[g] /\ gauges[g] <= 100
        /\ written[g] = {} => gauges[g] = 0

\* The gauge holds 75 after updates stored 40 and 75 in it, with two
\* updates in flight.
C7_Witness ==
    /\ Len(gauges) = 1
    /\ gauges[1] = 75
    /\ {40, 75} \subseteq written[1]
    /\ pc["u1"] = "set"
    /\ pc["u2"] = "status2"

\* C8: an update during which the node's signals did not change leaves
\* the gauge equal to compute_health_score of those signals, whatever it
\* held before (so a repeat with the same state changes nothing), and no
\* step of an update changes the node.
C8_UpdateStoresCurrentScore ==
    /\ [][\A u \in Updaters :
            (update_set(u) /\ Cardinality(held[u]) = 1) =>
                LET sig == Signals(node)
                    want == compute_health_score(sig[1], sig[2], sig[3])
                IN /\ gauges'[um[u]] = want
                   /\ gauges[um[u]] = want => gauges' = gauges]_vars
    /\ [][(\E u \in Updaters : UpdateStep(u)) => node' = node]_vars

\* With the node steady at (running, no peers, synced) an update replaced
\* an earlier 40 by 65.
C8_Witness ==
    \E u \in Updaters :
        /\ pc[u] = "done"
        /\ held[u] = {<<TRUE, FALSE, TRUE>>}
        /\ Signals(node) = <<TRUE, FALSE, TRUE>>
        /\ 40 \in written[um[u]]
        /\ gauges[um[u]] = 65

\* C9: the score an update stored is compute_health_score of a signal
\* triple the node held at some instant of that update.
C9_ScoreOfHeldTriple ==
    \A u \in Updaters :
        pc[u] = "done" =>
            \E t \in held[u] : score[u] = compute_health_score(t[1], t[2], t[3])

\* The health gauge of METRICS shows the score of the node's signals.
GaugeShowsScore ==
    \E g \in MetricsSet :
        /\ Exported(g)
        /\ LET sig == Signals(node)
           IN gauges[g] = compute_health_score(sig[1], sig[2], sig[3])

\* C10: once the node's signals have stopped changing and updates keep
\* being scheduled, the gauge comes to hold compute_health_score of the
\* signals and holds it for ever, and every export returns the gauge's
\* value.
C10_EventuallyStableScore ==
    /\ <>[]GaugeShowsScore
    /\ [][Export => \E g \in MetricsSet :
                      Exported(g) /\ HasSample(result'.text, gauges[g])]_vars

\* The node can change no more, both updaters have finished a cycle and
\* the gauge shows the score of the final signals.
C10_Witness ==
    /\ changes >= MaxChanges
    /\ \A u \in Updaters : pc[u] = "done" /\ held[u] = {Signals(node)}
    /\ GaugeShowsScore
    /\ Signals(node) = <<TRUE, TRUE, TRUE>>
    /\ result.ok
    /\ HasSample(result.text, 100)

====
